---- MODULE Spec2Model ----
(***************************************************************************)
(* A model of the k6-operator test-run controller: the execution-segment   *)
(* arithmetic (pkg/segmentation), the creation of runner jobs              *)
(* (CreateJobs, createJobSpecs, launchTest) and the start of the runners   *)
(* (Start, StartK6FromOperators, SendStartToHTTPWorker).                   *)
(*                                                                         *)
(* Texts are sequences of one-character strings, so that formatting        *)
(* (fmt.Sprintf, strings.Join, json.Marshal) and its inverse (splitting,   *)
(* parsing) are distinct computations.                                     *)
(***************************************************************************)
EXTENDS Integers, Sequences, FiniteSets, TLC

VARIABLES
    \* ---- segmentation calls (specification SegSpec)
    segIndex,       \* argument index of NewCommandSegment
    segTotal,       \* argument total of NewCommandSegment / spec.parallelism
    segOut,         \* what NewCommandSegment returned, once called
    cmOut,          \* what newSharedRunnedConfigmap returned, once called
    \* ---- the TestRun: spec (immutable) and persisted status
    parallelism,        \* k6.GetSpec().Parallelism
    useDirectPodIPs,    \* k6.GetSpec().UseDirectPodIPs
    useLegacyStarter,   \* k6.GetSpec().UseLegacyStarter
    stage,              \* k6.GetStatus().Stage
    conds,              \* k6.GetStatus().Conditions, by condition type
    \* ---- the cluster
    now,                \* the clock: an index into Instants
    jobs,               \* indices i whose runner job <name>-i exists
    services,           \* indices i whose runner service exists
    cmExists,           \* the shared configmap exists
    starterExists,      \* the starter job exists
    podsRunning,        \* number of the run's pods in phase Running
    \* ---- the dispatch queue r.testRequests and its workers
    queue,              \* the buffered channel, oldest request first
    delivered,          \* hosts whose request of this pass a worker took

    \* ---- the reconcile pass in flight, and what the last pass returned
    pc,                 \* position of the pass; "idle" between passes
    idx,                \* loop variable of createJobSpecs / StartK6FromOperators
    errs,               \* errs of StartK6FromOperators: failing hostnames
    sent,               \* start requests built in this pass, in call order
    createLog,          \* r.Create calls of this pass, in call order
    passEvents,         \* abort events sent to the cloud in this pass
    lastKind,           \* "CreateJobs" or "Start": the pass last begun
    lastRes,            \* ctrl.Result returned by the last pass
    lastErr,            \* error returned by the last pass
    lastProbe,          \* outcome of the read that opens the pass: r.Get on
                        \* job <name>-1 (CreateJobs), r.List of the pods (Start)
    lastSetup,          \* outcome of runSetup in this pass, "none": not run
    startErr,           \* what StartK6FromOperators returned in this pass
    passes,             \* number of passes begun
    changed             \* status or cluster changed since the last pass began

segVars == <<segIndex, segTotal, segOut, cmOut>>
cfgVars == <<parallelism, useDirectPodIPs, useLegacyStarter>>
statusVars == <<stage, conds>>
clusterVars == <<jobs, services, cmExists, starterExists, podsRunning>>
queueVars == <<queue, delivered>>
passVars ==
    <<pc, idx, errs, sent, createLog, passEvents, lastKind, lastRes, lastErr,
      lastProbe, lastSetup, startErr, passes, changed>>

vars ==
    <<segVars, cfgVars, statusVars, now, clusterVars, queueVars, passVars>>

\* ------------------------------------------------------------------ bounds

\* Largest parallelism given to the segmentation functions (two digits, so
\* that %d prints more than one character).
MaxTotal == 12
\* Largest parallelism of the modelled TestRun.
MaxParallelism == 2
\* Capacity of the channel r.testRequests.
QueueCap == 1
\* Reconcile passes the scheduler makes within a behaviour.
MaxPasses == 2

\* The instants, in seconds, at which passes are made: the clock steps from
\* one to the next. They lie on and around the two timeouts of the code.
Instants == <<0, 30, 31, 300, 301>>

\* --------------------------------------------------------------- constants

\* createJobSpecs: time.Since(t).Seconds() <= 30
GraceSeconds == 30
\* Start: time.Since(t).Minutes() > 5
TooLongMinutes == 5

\* ------------------------------------------------------------------- texts

Nil == "nil"

DigitChars == <<"0", "1", "2", "3", "4", "5", "6", "7", "8", "9">>

RECURSIVE Digits(_)
\* The decimal digits of a natural number, most significant first.
Digits(n) ==
    IF n < 10 THEN <<DigitChars[n + 1]>>
    ELSE Digits(n \div 10) \o <<DigitChars[(n % 10) + 1]>>

\* fmt's %d verb.
FormatInt(n) == IF n < 0 THEN <<"-">> \o Digits(-n) ELSE Digits(n)

SprintfFractionSwapped(a, b) == FormatInt(b) \o <<"/">> \o FormatInt(a)

\* fmt.Sprintf("%d/%d", a, b)
SprintfFraction(a, b) == FormatInt(a) \o <<"/">> \o FormatInt(b)

RECURSIVE Join(_, _)
\* strings.Join(parts, sep)
Join(parts, sep) ==
    IF Len(parts) = 0 THEN <<>>
    ELSE IF Len(parts) = 1 THEN parts[1]
    ELSE parts[1] \o sep \o Join(Tail(parts), sep)

\* ------------------------------------------------------------ segmentation

ErrIndexExceeds == "node index exceeds configured parallelism"

FlagPrefix ==
    <<"-", "-", "e", "x", "e", "c", "u", "t", "i", "o", "n", "-",
      "s", "e", "g", "m", "e", "n", "t", "=">>

getSegmentPartNoEnd(index, total) ==
    IF index = 0 THEN <<"0">> ELSE SprintfFraction(index, total)

\* The closure getSegmentPart of NewCommandSegment.
getSegmentPart(index, total) ==
    IF index = 0 THEN <<"0">>
    ELSE IF index = total THEN <<"1">>
    ELSE SprintfFraction(index, total)

IndexExceedsOffByOne(index, total) == index > total + 1

\* The range check of NewCommandSegment.
IndexExceeds(index, total) == index > total

\* NewCommandSegment: the flag and the error it returns.
NewCommandSegment(index, total) ==
    IF IndexExceeds(index, total)
    THEN [flag |-> <<>>, err |-> ErrIndexExceeds]
    ELSE [flag |-> FlagPrefix \o getSegmentPart(index - 1, total) \o <<":">>
                       \o getSegmentPart(index, total),
          err |-> Nil]

\* ------------------------------------------------- shared segment sequence

JsonOpen ==
    <<"{", "\"", "e", "x", "e", "c", "u", "t", "i", "o", "n", "S", "e", "g",
      "m", "e", "n", "t", "S", "e", "q", "u", "e", "n", "c", "e", "\"", ":",
      "\"">>
JsonClose == <<"\"", "}">>

\* json.Marshal of a map with the one key executionSegmentSequence and a
\* text value without characters that JSON escapes.
JsonMarshalSequence(value) == JsonOpen \o value \o JsonClose

SequencePartsFromZero(total) ==
    [i \in 1..(total - 1) |-> SprintfFraction(i - 1, total)]

SequencePartsInclusive(total) == [i \in 1..total |-> SprintfFraction(i, total)]

\* The loop "for i := 1; i < total; i++" of newSharedRunnedConfigmap.
SequenceParts(total) == [i \in 1..(total - 1) |-> SprintfFraction(i, total)]

\* newSharedRunnedConfigmap: the nil pointer, or a configmap with the value
\* of Data["config.json"].
newSharedRunnedConfigmap(total) ==
    IF total <= 1 THEN [isNil |-> TRUE, data |-> <<>>]
    ELSE [isNil |-> FALSE,
          data |-> JsonMarshalSequence(
                       <<"0">> \o <<",">> \o Join(SequenceParts(total), <<",">>)
                           \o <<",">> \o <<"1">>)]

\* ------------------------------------------------------- reading the texts

RECURSIVE ParseNat(_)
\* The number a text of decimal digits denotes; -1 when it is none.
ParseNat(t) ==
    IF Len(t) = 0 THEN -1
    ELSE LET d == {k \in 0..9 : DigitChars[k + 1] = t[Len(t)]} IN
         IF d = {} THEN -1
         ELSE IF Len(t) = 1 THEN CHOOSE k \in d : TRUE
         ELSE LET hi == ParseNat(SubSeq(t, 1, Len(t) - 1)) IN
              IF hi < 0 THEN -1 ELSE 10 * hi + (CHOOSE k \in d : TRUE)

\* Positions of the separator character in a text.
Positions(t, c) == {k \in 1..Len(t) : t[k] = c}

RECURSIVE Split(_, _)
\* The pieces of t between the occurrences of the character c.
Split(t, c) ==
    IF Positions(t, c) = {} THEN <<t>>
    ELSE LET p == CHOOSE k \in Positions(t, c) :
                      \A j \in Positions(t, c) : k <= j IN
         <<SubSeq(t, 1, p - 1)>> \o Split(SubSeq(t, p + 1, Len(t)), c)

HasPrefix(t, p) == Len(t) >= Len(p) /\ SubSeq(t, 1, Len(p)) = p

\* The <lower>:<upper> text of a segment flag.
SegmentText(flag) == SubSeq(flag, Len(FlagPrefix) + 1, Len(flag))
LowerText(flag) == Split(SegmentText(flag), ":")[1]
UpperText(flag) == Split(SegmentText(flag), ":")[2]

\* A boundary text as a fraction <<numerator, denominator>>; <<-1, -1>> when
\* the text is no boundary.
Boundary(t) ==
    IF t = <<"0">> THEN <<0, 1>>
    ELSE IF t = <<"1">> THEN <<1, 1>>
    ELSE LET f == Split(t, "/") IN
         IF Len(f) = 2 /\ ParseNat(f[1]) >= 0 /\ ParseNat(f[2]) > 0
         THEN <<ParseNat(f[1]), ParseNat(f[2])>>
         ELSE <<-1, -1>>

FracEq(a, b) == a[2] > 0 /\ b[2] > 0 /\ a[1] * b[2] = b[1] * a[2]
FracLt(a, b) == a[2] > 0 /\ b[2] > 0 /\ a[1] * b[2] < b[1] * a[2]

\* The text of the sequence inside the JSON of the shared configmap.
SequenceText(json) ==
    SubSeq(json, Len(JsonOpen) + 1, Len(json) - Len(JsonClose))

\* -------------------------------------------------------------- conditions

TestRunRunning == "TestRunRunning"
CloudTestRun == "CloudTestRun"
CloudTestRunCreated == "CloudTestRunCreated"
CloudPLZTestRun == "CloudPLZTestRun"
CondKinds == {TestRunRunning, CloudTestRun, CloudTestRunCreated, CloudPLZTestRun}

Cond(status, t) == [status |-> status, time |-> t, present |-> TRUE]
NoCond == [status |-> "Unknown", time |-> 1, present |-> FALSE]

\* v1alpha1.IsTrue, v1alpha1.IsUnknown
IsTrue(kind) == conds[kind].present /\ conds[kind].status = "True"
IsUnknown(kind) == conds[kind].present /\ conds[kind].status = "Unknown"

\* v1alpha1.LastUpdate: the last transition time of the condition, and
\* whether the condition was found.
LastUpdate(kind) ==
    [t |-> IF conds[kind].present THEN conds[kind].time ELSE now,
     ok |-> conds[kind].present]

\* v1alpha1.UpdateCondition: the transition time moves only when the value
\* changes.
UpdateCondition(cs, kind, value) ==
    IF cs[kind].present /\ cs[kind].status = value THEN cs
    ELSE [cs EXCEPT ![kind] = Cond(value, now)]

\* time.Since(t).Seconds(), t being an index into Instants
SinceSeconds(t) == Instants[now] - Instants[t]

\* The statuses of the cloud conditions a TestRun is created with:
\* <<CloudTestRun, CloudTestRunCreated, CloudPLZTestRun>>; "Absent" is a
\* CloudTestRun condition not yet written.
CloudModes ==
    { <<"Absent", "False", "False">>, <<"Unknown", "False", "False">>,
      <<"False", "False", "False">>, <<"True", "False", "False">>,
      <<"True", "True", "False">>, <<"True", "True", "True">> }

\* The cloud conditions at stage "created": a local run, a cloud run and a
\* cloud run in a private load zone.
StartModes ==
    { <<"False", "False", "False">>, <<"True", "True", "False">>,
      <<"True", "True", "True">> }

InitialConds(m) ==
    [k \in CondKinds |->
        IF k = TestRunRunning THEN Cond("False", 1)
        ELSE IF k = CloudTestRun
             THEN (IF m[1] = "Absent" THEN NoCond ELSE Cond(m[1], 1))
        ELSE IF k = CloudTestRunCreated THEN Cond(m[2], 1)
        ELSE Cond(m[3], 1)]

\* ------------------------------------------------------ results and errors

ErrJobExists == "job with the name <name>-1 exists"
ErrProbe == "get job failed"
ErrOwner == "set controller reference failed"
ErrPrepare == "failed to generate or own the resource"
ErrCreate == "create failed"
ErrStatus == "update status failed"
ErrNoCondition == "cannot find condition TestRunRunning"
ErrHostnames == "hostnames failed"
ErrSetup == "setup failed"

\* ctrl.Result values: Result{}, Result{Requeue: true}, Result{RequeueAfter: d}
ResNone == "Result{}"
ResRequeue == "Requeue"
ResAfter1s == "RequeueAfter 1s"
ResAfter5s == "RequeueAfter 5s"
ResAfter10s == "RequeueAfter 10s"

NoErr == [isNil |-> TRUE, failed |-> 0, total |-> 0, targets |-> <<>>]

\* A pass returns (res, err) to the scheduler.
Ret(res, err) == pc' = "idle" /\ lastRes' = res /\ lastErr' = err

\* A pass goes on to its next step.
Goto(l) == pc' = l /\ lastRes' = ResNone /\ lastErr' = Nil

\* The scheduler invokes a pass when the TestRun is new, when the previous
\* pass asked for a requeue or returned an error, or when the TestRun or what
\* it owns changed.
Scheduled ==
    passes = 0 \/ lastRes # ResNone \/ lastErr # Nil \/ changed

\* A pass begins: the scheduler serialises the passes of one TestRun.
BeginPass(kind) ==
    /\ pc = "idle"
    /\ Scheduled
    /\ passes < MaxPasses
    /\ passes' = passes + 1
    /\ lastKind' = kind
    /\ changed' = FALSE
    /\ sent' = <<>>
    /\ createLog' = <<>>
    /\ errs' = <<>>
    /\ startErr' = NoErr
    /\ delivered' = {}

\* --------------------------------------------------------------- CreateJobs

WithinGraceIgnoringUnknown ==
    LET u == LastUpdate(CloudTestRun) IN
    ~u.ok \/ SinceSeconds(u.t) <= GraceSeconds

\* createJobSpecs: the status may not have caught up yet, try again later.
WithinGrace ==
    LET u == LastUpdate(CloudTestRun) IN
    IsUnknown(CloudTestRun) \/ ~u.ok \/ SinceSeconds(u.t) <= GraceSeconds

\* CreateJobs, on an error of createJobSpecs: a cloud test run is told to
\* abort, and the error is returned.
FailCreate(err) ==
    /\ Ret(ResNone, err)
    /\ passEvents' = passEvents + (IF IsTrue(CloudTestRun) THEN 1 ELSE 0)

\* CreateJobs up to the end of the probe for job <name>-1 in createJobSpecs.
\* token: what tokenInfo.Load gave; probeErr: r.Get failed otherwise than
\* with not-found.
CreateJobsBegin(token, probeErr) ==
    /\ stage = "initialized"
    /\ BeginPass("CreateJobs")
    /\ LET cloudCreated == IsTrue(CloudTestRun) /\ IsTrue(CloudTestRunCreated)
           probe == IF probeErr THEN "error"
                    ELSE IF 1 \in jobs THEN "found" ELSE "notfound"
       IN
       IF cloudCreated /\ token = "error"
       THEN Ret(ResNone, Nil) /\ passEvents' = 0 /\ lastProbe' = "none"
       ELSE IF cloudCreated /\ token = "notready"
       THEN Ret(ResAfter5s, Nil) /\ passEvents' = 0 /\ lastProbe' = "none"
       ELSE /\ lastProbe' = probe
            /\ IF probe # "notfound"
               THEN IF WithinGrace
                    THEN Ret(ResAfter10s, Nil) /\ passEvents' = 0
                    ELSE /\ Ret(ResNone, IF probe = "found" THEN ErrJobExists
                                         ELSE ErrProbe)
                         /\ passEvents' = (IF IsTrue(CloudTestRun) THEN 1 ELSE 0)
               ELSE /\ passEvents' = 0
                    /\ Goto(IF newSharedRunnedConfigmap(parallelism).isNil
                            THEN "launchJob" ELSE "createCM")
    /\ idx' = 1
    /\ lastSetup' = "none"
    /\ UNCHANGED <<segVars, cfgVars, statusVars, now, clusterVars, queue>>

\* createJobSpecs: the shared configmap is owned and created.
CreateConfigmap(outcome) ==
    /\ pc = "createCM"
    /\ IF outcome = "ownerErr"
       THEN /\ FailCreate(ErrOwner)
            /\ UNCHANGED <<createLog, cmExists, changed>>
       ELSE LET ok == outcome = "ok" /\ ~cmExists IN
            /\ createLog' = Append(createLog,
                   [kind |-> "configmap", index |-> 0, ok |-> ok])
            /\ IF ok
               THEN /\ cmExists' = TRUE
                    /\ changed' = TRUE
                    /\ Goto("launchJob")
                    /\ UNCHANGED passEvents
               ELSE /\ FailCreate(ErrCreate)
                    /\ UNCHANGED <<cmExists, changed>>
    /\ UNCHANGED <<segVars, cfgVars, statusVars, now, jobs, services,
                   starterExists, podsRunning, queueVars, idx, errs, sent,
                   lastKind, lastProbe, lastSetup, startErr, passes>>

NextIndexSkip ==
    IF idx < parallelism
    THEN Goto("launchJob") /\ idx' = idx + 2
    ELSE Goto("setCreated") /\ idx' = idx

NextIndexStopsEarly ==
    IF idx < parallelism - 1
    THEN Goto("launchJob") /\ idx' = idx + 1
    ELSE Goto("setCreated") /\ idx' = idx

\* The loop of createJobSpecs goes on after launchTest(idx) returned nil.
NextIndex ==
    IF idx < parallelism
    THEN Goto("launchJob") /\ idx' = idx + 1
    ELSE Goto("setCreated") /\ idx' = idx

\* launchTest, first half: the runner job of index idx.
LaunchJob(outcome) ==
    /\ pc = "launchJob"
    /\ IF outcome = "prepErr"
       THEN /\ FailCreate(ErrPrepare)
            /\ UNCHANGED <<createLog, jobs, changed, idx>>
       ELSE LET ok == outcome = "ok" /\ idx \notin jobs IN
            /\ createLog' = Append(createLog,
                   [kind |-> "job", index |-> idx, ok |-> ok])
            /\ IF ok
               THEN /\ jobs' = jobs \cup {idx}
                    /\ changed' = TRUE
                    /\ IF ~useDirectPodIPs
                       THEN Goto("launchSvc") /\ idx' = idx
                       ELSE NextIndex
                    /\ UNCHANGED passEvents
               ELSE /\ FailCreate(ErrCreate)
                    /\ UNCHANGED <<jobs, changed, idx>>
    /\ UNCHANGED <<segVars, cfgVars, statusVars, now, services, cmExists,
                   starterExists, podsRunning, queueVars, errs, sent,
                   lastKind, lastProbe, lastSetup, startErr, passes>>

LaunchServiceRollback(outcome) ==
    /\ pc = "launchSvc"
    /\ IF outcome = "prepErr"
       THEN /\ FailCreate(ErrPrepare)
            /\ UNCHANGED <<createLog, services, changed, idx, jobs>>
       ELSE LET ok == outcome = "ok" /\ idx \notin services IN
            /\ createLog' = Append(createLog,
                   [kind |-> "service", index |-> idx, ok |-> ok])
            /\ IF ok
               THEN /\ services' = services \cup {idx}
                    /\ changed' = TRUE
                    /\ NextIndex
                    /\ UNCHANGED <<passEvents, jobs>>
               ELSE /\ FailCreate(ErrCreate)
                    /\ jobs' = jobs \ {idx}
                    /\ UNCHANGED <<services, changed, idx>>
    /\ UNCHANGED <<segVars, cfgVars, statusVars, now, cmExists,
                   starterExists, podsRunning, queueVars, errs, sent,
                   lastKind, lastProbe, lastSetup, startErr, passes>>

\* launchTest, second half: the runner service of index idx.
LaunchService(outcome) ==
    /\ pc = "launchSvc"
    /\ IF outcome = "prepErr"
       THEN /\ FailCreate(ErrPrepare)
            /\ UNCHANGED <<createLog, services, changed, idx>>
       ELSE LET ok == outcome = "ok" /\ idx \notin services IN
            /\ createLog' = Append(createLog,
                   [kind |-> "service", index |-> idx, ok |-> ok])
            /\ IF ok
               THEN /\ services' = services \cup {idx}
                    /\ changed' = TRUE
                    /\ NextIndex
                    /\ UNCHANGED passEvents
               ELSE /\ FailCreate(ErrCreate)
                    /\ UNCHANGED <<services, changed, idx>>
    /\ UNCHANGED <<segVars, cfgVars, statusVars, now, jobs, cmExists,
                   starterExists, podsRunning, queueVars, errs, sent,
                   lastKind, lastProbe, lastSetup, startErr, passes>>

\* r.UpdateStatus, by what the write to the cluster did: "updated" persists
\* the status, "conflict" ends the pass with a requeue, "error" with an error.
UpdateOutcomes == {"updated", "conflict", "error"}

\* CreateJobs: the stage becomes "created" and the status is persisted.
CreateJobsFinish(upd) ==
    /\ pc = "setCreated"
    /\ IF upd = "updated"
       THEN stage' = "created" /\ changed' = TRUE /\ Ret(ResRequeue, Nil)
       ELSE IF upd = "conflict"
       THEN UNCHANGED <<stage, changed>> /\ Ret(ResRequeue, Nil)
       ELSE UNCHANGED <<stage, changed>> /\ Ret(ResNone, ErrStatus)
    /\ UNCHANGED <<segVars, cfgVars, conds, now, clusterVars, queueVars, idx,
                   errs, sent, createLog, passEvents, lastKind, lastProbe, lastSetup,
                   startErr, passes>>

\* -------------------------------------------------------------------- Start

ReadyAtLeast(count, n) == count >= n

\* Start: all the runner pods are in phase Running.
Ready(count, n) == count = n

TooLongSeconds(t) == SinceSeconds(t) > TooLongMinutes

\* Start: time.Since(t).Minutes() > 5
TooLong(t) == SinceSeconds(t) > TooLongMinutes * 60

SetupFailedAlwaysAbort(retry) ==
    Ret(ResNone, Nil) /\ passEvents' = 1

\* Start: runSetup failed. A retryable failure is returned as an error; any
\* other sends the abort event of a setup error and ends the pass.
SetupFailed(retry) ==
    IF retry
    THEN Ret(ResNone, ErrSetup) /\ passEvents' = 0
    ELSE Ret(ResNone, Nil) /\ passEvents' = 1

\* r.hostnames: one hostname per runner, in index order.
Hostnames == [i \in 1..parallelism |-> i]

\* Start up to the starter: the pods are listed and counted, the hostnames
\* fetched, and the setup of a PLZ test run is run. lastProbe keeps what
\* r.List gave.
StartBegin(listErr, hostErr, setup) ==
    /\ stage = "created"
    /\ BeginPass("Start")
    /\ lastProbe' = (IF listErr THEN "listError" ELSE "listed")
    /\ lastSetup' = (IF /\ ~listErr /\ Ready(podsRunning, parallelism)
                        /\ ~hostErr /\ IsTrue(CloudPLZTestRun)
                     THEN setup ELSE "none")
    /\ idx' = 1
    /\ IF listErr
       THEN Ret(ResAfter1s, Nil) /\ passEvents' = 0
       ELSE IF ~Ready(podsRunning, parallelism)
       THEN LET u == LastUpdate(TestRunRunning) IN
            IF ~u.ok
            THEN Ret(ResAfter1s, ErrNoCondition) /\ passEvents' = 0
            ELSE /\ Ret(ResAfter1s, Nil)
                 /\ passEvents' =
                        (IF TooLong(u.t) /\ IsTrue(CloudTestRun) THEN 1 ELSE 0)
       ELSE IF hostErr
       THEN Ret(ResNone, ErrHostnames) /\ passEvents' = 0
       ELSE IF IsTrue(CloudPLZTestRun) /\ setup # "ok"
       THEN SetupFailed(setup = "retryable")
       ELSE /\ passEvents' = 0
            /\ Goto(IF ~useLegacyStarter THEN "send" ELSE "starter")
    /\ UNCHANGED <<segVars, cfgVars, statusVars, now, clusterVars, queue>>

SelectSendEvict(q, req) ==
    IF Len(q) < QueueCap THEN Append(q, req) ELSE Append(Tail(q), req)

\* The select of SendStartToHTTPWorker: the request is sent on the channel
\* if it has room, and the default case is taken otherwise.
SelectSend(q, req) == IF Len(q) < QueueCap THEN Append(q, req) ELSE q

\* json.Marshal of the fixed payload of SendStartToHTTPWorker.
MarshalPayloadErr == Nil

\* SendStartToHTTPWorker: the channel afterwards and the error returned.
SendStartToHTTPWorker(q, req) ==
    IF MarshalPayloadErr # Nil
    THEN [queue |-> q, err |-> MarshalPayloadErr]
    ELSE [queue |-> SelectSend(q, req), err |-> Nil]

\* One iteration of the loop of StartK6FromOperators.
SendStart ==
    /\ pc = "send"
    /\ idx <= Len(Hostnames)
    /\ LET req == [host |-> Hostnames[idx], pass |-> passes]
           r == SendStartToHTTPWorker(queue, req)
           queued == \E k \in 1..Len(r.queue) : r.queue[k] = req
       IN
       /\ queue' = r.queue
       /\ sent' = Append(sent, [host |-> req.host, queued |-> queued,
                                err |-> r.err])
       /\ errs' = (IF r.err # Nil THEN Append(errs, req.host) ELSE errs)
    /\ idx' = idx + 1
    /\ UNCHANGED <<segVars, cfgVars, statusVars, now, clusterVars, delivered,
                   pc, createLog, passEvents, lastKind, lastRes, lastErr,
                   lastProbe, lastSetup, startErr, passes, changed>>

\* What StartK6FromOperators returns: nil, or the error
\* "failed to start <failed>/<total> agents: <targets>".
AggregateError(es, total) ==
    IF Len(es) > 0
    THEN [isNil |-> FALSE, failed |-> Len(es), total |-> total, targets |-> es]
    ELSE NoErr

\* StartK6FromOperators returns to Start.
StartK6FromOperatorsReturn ==
    /\ pc = "send"
    /\ idx > Len(Hostnames)
    /\ startErr' = AggregateError(errs, Len(Hostnames))
    /\ IF ~startErr'.isNil THEN Ret(ResAfter1s, Nil) ELSE Goto("finish")
    /\ UNCHANGED <<segVars, cfgVars, statusVars, now, clusterVars, queueVars,
                   idx, errs, sent, createLog, passEvents, lastKind,
                   lastProbe, lastSetup, passes, changed>>

\* jobs.NewStarterJob names the starter job after the TestRun: the name is
\* the same in every pass, and taken once the job exists.
StarterNameTaken == starterExists

\* Start, legacy path: the starter job is owned and created. An error of
\* SetControllerReference (ownerErr) is logged and r.Create is called all the
\* same.
CreateStarter(ownerErr, outcome) ==
    /\ pc = "starter"
    /\ LET ok == outcome = "ok" /\ ~StarterNameTaken
           owned == IF ownerErr
                    THEN Append(createLog,
                             [kind |-> "owner", index |-> 0, ok |-> FALSE])
                    ELSE createLog
       IN
       /\ createLog' = Append(owned,
              [kind |-> "starter", index |-> 0, ok |-> ok])
       /\ IF ok
          THEN starterExists' = TRUE /\ changed' = TRUE /\ Goto("finish")
          ELSE UNCHANGED <<starterExists, changed>> /\ Ret(ResAfter1s, Nil)
    /\ UNCHANGED <<segVars, cfgVars, statusVars, now, jobs, services,
                   cmExists, podsRunning, queueVars, idx, errs, sent,
                   passEvents, lastKind, lastProbe, lastSetup, startErr, passes>>

\* Start: the stage becomes "started", TestRunRunning becomes True and the
\* status is persisted.
StartFinish(upd) ==
    /\ pc = "finish"
    /\ IF upd = "updated"
       THEN /\ stage' = "started"
            /\ conds' = UpdateCondition(conds, TestRunRunning, "True")
            /\ changed' = TRUE
            /\ Ret(ResRequeue, Nil)
       ELSE IF upd = "conflict"
       THEN UNCHANGED <<stage, conds, changed>> /\ Ret(ResRequeue, Nil)
       ELSE UNCHANGED <<stage, conds, changed>> /\ Ret(ResNone, ErrStatus)
    /\ UNCHANGED <<segVars, cfgVars, now, clusterVars, queueVars, idx, errs,
                   sent, createLog, passEvents, lastKind, lastProbe, lastSetup, startErr,
                   passes>>

\* ------------------------------------------------------------- environment

\* A worker of the pool takes the oldest request off the channel.
WorkerTake ==
    /\ Len(queue) > 0
    /\ delivered' = (IF Head(queue).host # 0 /\ Head(queue).pass = passes
                     THEN delivered \cup {Head(queue).host}
                     ELSE delivered)
    /\ queue' = Tail(queue)
    /\ UNCHANGED <<segVars, cfgVars, statusVars, now, clusterVars, passVars>>

\* The pass of another TestRun (host 0) puts a request on the shared channel.
OtherRunSends ==
    /\ queue' = SelectSend(queue, [host |-> 0, pass |-> 0])
    /\ queue' # queue
    /\ UNCHANGED <<segVars, cfgVars, statusVars, now, clusterVars, delivered,
                   passVars>>

\* Time passes between two passes.
Tick ==
    /\ pc = "idle"
    /\ now < Len(Instants)
    /\ now' = now + 1
    /\ UNCHANGED <<segVars, cfgVars, statusVars, clusterVars, queueVars,
                   passVars>>

\* Pods of the runner jobs enter or leave phase Running.
PodsChange(n) ==
    /\ pc = "idle"
    /\ stage = "created"
    /\ n \in 0..(parallelism + 1)
    /\ n # podsRunning
    /\ podsRunning' = n
    /\ changed' = TRUE
    /\ UNCHANGED <<segVars, cfgVars, statusVars, now, jobs, services,
                   cmExists, starterExists, queueVars, pc, idx, errs, sent,
                   createLog, passEvents, lastKind, lastRes, lastErr,
                   lastProbe, lastSetup, startErr, passes>>

\* ----------------------------------------------------------- specifications

SegIdle ==
    /\ segIndex = 1
    /\ segTotal = 1
    /\ segOut = [called |-> FALSE, flag |-> <<>>, err |-> Nil]
    /\ cmOut = [called |-> FALSE, isNil |-> TRUE, data |-> <<>>]

PassIdle ==
    /\ pc = "idle"
    /\ idx = 1
    /\ errs = <<>>
    /\ sent = <<>>
    /\ createLog = <<>>
    /\ passEvents = 0
    /\ lastKind = "none"
    /\ lastRes = ResNone
    /\ lastErr = Nil
    /\ lastProbe = "none"
    /\ lastSetup = "none"
    /\ startErr = NoErr
    /\ passes = 0
    /\ changed = FALSE

QueueEmpty ==
    /\ queue = <<>>
    /\ delivered = {}

\* A TestRun that has been initialized: its conditions are set, nothing of
\* it is created yet, except that job <name>-1 of an earlier run of the same
\* name may still be there.
CreateInit ==
    /\ SegIdle
    /\ parallelism \in 1..MaxParallelism
    /\ useDirectPodIPs \in BOOLEAN
    /\ useLegacyStarter \in BOOLEAN
    /\ stage = "initialized"
    /\ \E m \in CloudModes : conds = InitialConds(m)
    /\ now = 1
    /\ jobs \in {{}, {1}}
    /\ services = {}
    /\ cmExists = FALSE
    /\ starterExists = FALSE
    /\ podsRunning = 0
    /\ QueueEmpty
    /\ PassIdle

\* The passes of stage "initialized".
CreateNext ==
    \/ \E token \in {"ok", "error", "notready"}, probeErr \in BOOLEAN :
           CreateJobsBegin(token, probeErr)
    \/ \E outcome \in {"ok", "ownerErr", "createErr"} : CreateConfigmap(outcome)
    \/ \E outcome \in {"ok", "prepErr", "createErr"} : LaunchJob(outcome)
    \/ \E outcome \in {"ok", "prepErr", "createErr"} : LaunchService(outcome)
    \/ \E upd \in UpdateOutcomes : CreateJobsFinish(upd)
    \/ Tick

CreateSpec == CreateInit /\ [][CreateNext]_vars

\* A TestRun that CreateJobs has brought to stage "created": the configmap
\* (for a parallelism above 1), the runner jobs and their services exist.
StartInit ==
    /\ SegIdle
    /\ parallelism \in 1..MaxParallelism
    /\ useDirectPodIPs \in BOOLEAN
    /\ useLegacyStarter \in BOOLEAN
    /\ stage = "created"
    /\ \E m \in StartModes : conds = InitialConds(m)
    /\ now = 1
    /\ jobs = 1..parallelism
    /\ services = (IF useDirectPodIPs THEN {} ELSE 1..parallelism)
    /\ cmExists = ~newSharedRunnedConfigmap(parallelism).isNil
    /\ starterExists = FALSE
    /\ podsRunning = 0
    /\ QueueEmpty
    /\ PassIdle

\* The passes of stage "created", the workers of the dispatch queue and the
\* other TestRuns that share it.
StartNext ==
    \/ \E listErr \in BOOLEAN, hostErr \in BOOLEAN,
          setup \in {"ok", "retryable", "fatal"} :
           StartBegin(listErr, hostErr, setup)
    \/ SendStart
    \/ StartK6FromOperatorsReturn
    \/ \E ownerErr \in BOOLEAN, outcome \in {"ok", "createErr"} :
           CreateStarter(ownerErr, outcome)
    \/ \E upd \in UpdateOutcomes : StartFinish(upd)
    \/ WorkerTake
    \/ OtherRunSends
    \/ Tick
    \/ \E n \in 0..(MaxParallelism + 1) : PodsChange(n)

StartSpec == StartInit /\ [][StartNext]_vars

\* ------------------------------------------------- specification SegSpec

SegInit ==
    /\ segTotal \in 0..MaxTotal
    /\ segIndex \in 0..(MaxTotal + 2)
    /\ segOut = [called |-> FALSE, flag |-> <<>>, err |-> Nil]
    /\ cmOut = [called |-> FALSE, isNil |-> TRUE, data |-> <<>>]
    /\ parallelism = 1
    /\ useDirectPodIPs = FALSE
    /\ useLegacyStarter = FALSE
    /\ stage = "initialized"
    /\ conds = InitialConds(<<"False", "False", "False">>)
    /\ now = 1
    /\ jobs = {}
    /\ services = {}
    /\ cmExists = FALSE
    /\ starterExists = FALSE
    /\ podsRunning = 0
    /\ QueueEmpty
    /\ PassIdle

CtlVars == <<cfgVars, statusVars, now, clusterVars, queueVars, passVars>>

CallNewCommandSegment ==
    /\ ~segOut.called
    /\ LET r == NewCommandSegment(segIndex, segTotal) IN
           segOut' = [called |-> TRUE, flag |-> r.flag, err |-> r.err]
    /\ UNCHANGED <<segIndex, segTotal, cmOut, CtlVars>>

CallNewSharedRunnedConfigmap ==
    /\ ~cmOut.called
    /\ LET c == newSharedRunnedConfigmap(segTotal) IN
           cmOut' = [called |-> TRUE, isNil |-> c.isNil, data |-> c.data]
    /\ UNCHANGED <<segIndex, segTotal, segOut, CtlVars>>

SegNext == CallNewCommandSegment \/ CallNewSharedRunnedConfigmap

SegSpec == SegInit /\ [][SegNext]_vars

\* --------------------------------------------------- segmentation claims

TwoFields(flag) ==
    /\ HasPrefix(flag, FlagPrefix)
    /\ Len(Split(SegmentText(flag), ":")) = 2

\* C1: for N >= 1 and 1 <= i <= N, NewCommandSegment(i, N) succeeds; the
\* lower bound of segment i is the upper bound of segment i-1 ("0" for
\* i = 1), segment N ends at "1", and every segment is a non-empty range, so
\* that the segments 1..N cover [0,1] without gap or overlap.
C1_SegmentsPartition ==
    (segOut.called /\ segTotal >= 1 /\ 1 <= segIndex /\ segIndex <= segTotal)
    => /\ segOut.err = Nil
       /\ TwoFields(segOut.flag)
       /\ LowerText(segOut.flag) =
              (IF segIndex = 1 THEN <<"0">>
               ELSE UpperText(NewCommandSegment(segIndex - 1, segTotal).flag))
       /\ (segIndex = segTotal => UpperText(segOut.flag) = <<"1">>)
       /\ FracEq(Boundary(LowerText(segOut.flag)), <<segIndex - 1, segTotal>>)
       /\ FracEq(Boundary(UpperText(segOut.flag)), <<segIndex, segTotal>>)
       /\ FracLt(Boundary(LowerText(segOut.flag)),
                 Boundary(UpperText(segOut.flag)))

C1_Witness ==
    segOut.called /\ segTotal = 12 /\ segIndex = 11 /\ segOut.err = Nil

\* C2: for i > N, NewCommandSegment(i, N) fails with the range error and
\* returns no flag.
C2_IndexBeyondTotalFails ==
    (segOut.called /\ segIndex > segTotal)
    => (segOut.err = ErrIndexExceeds /\ segOut.err # Nil /\ segOut.flag = <<>>)

C2_Witness ==
    segOut.called /\ segIndex = 6 /\ segTotal = 5 /\ segOut.err # Nil

\* C3 as stated: the segment of index 2 of 4 is "1/4:1/2" and the segment of
\* index 1 of 1 is "0:1".
C3_AsStated ==
    segOut.called
    => /\ (segIndex = 2 /\ segTotal = 4)
           => SegmentText(segOut.flag) = <<"1", "/", "4", ":", "1", "/", "2">>
       /\ (segIndex = 1 /\ segTotal = 1)
           => SegmentText(segOut.flag) = <<"0", ":", "1">>

\* C3, amended: the segment of index 2 of 4 is "1/4:2/4" (fractions are
\* printed over the total, not reduced) and the segment of index 1 of 1 is
\* "0:1".
C3_SegmentExamples ==
    segOut.called
    => /\ (segIndex = 2 /\ segTotal = 4)
           => SegmentText(segOut.flag) = <<"1", "/", "4", ":", "2", "/", "4">>
       /\ (segIndex = 1 /\ segTotal = 1)
           => SegmentText(segOut.flag) = <<"0", ":", "1">>

C3_Witness ==
    segOut.called /\ segIndex = 2 /\ segTotal = 4 /\ TwoFields(segOut.flag)

\* Entry k (from 0) of a shared sequence for parallelism n reads "k/n", with
\* "0" first and "1" last; numbers carry no leading zero.
IsEntry(t, k, n) ==
    IF k = 0 THEN t = <<"0">>
    ELSE IF k = n THEN t = <<"1">>
    ELSE LET f == Split(t, "/") IN
         /\ Len(f) = 2
         /\ ParseNat(f[1]) = k /\ f[1][1] # "0"
         /\ ParseNat(f[2]) = n /\ f[2][1] # "0"

\* C4: for N > 1 the shared configmap carries the sequence
\* "0,1/N,...,(N-1)/N,1" of N+1 boundaries under the JSON key
\* executionSegmentSequence ("0,1/3,2/3,1" for N = 3); for N = 1 there is no
\* configmap.
C4_SharedSequence ==
    cmOut.called
    => /\ segTotal = 1 => cmOut.isNil
       /\ segTotal > 1
           => /\ ~cmOut.isNil
              /\ HasPrefix(cmOut.data, JsonOpen)
              /\ SubSeq(cmOut.data, Len(cmOut.data) - Len(JsonClose) + 1,
                        Len(cmOut.data)) = JsonClose
              /\ LET parts == Split(SequenceText(cmOut.data), ",") IN
                     /\ Len(parts) = segTotal + 1
                     /\ \A k \in 0..segTotal :
                            IsEntry(parts[k + 1], k, segTotal)
       /\ segTotal = 3
           => SequenceText(cmOut.data) =
                  <<"0", ",", "1", "/", "3", ",", "2", "/", "3", ",", "1">>

C4_Witness ==
    cmOut.called /\ segTotal = 3 /\ ~cmOut.isNil

\* ----------------------------------------------------- controller claims

\* The step that begins a Start pass.
StartBeginStep == pc = "idle" /\ stage = "created" /\ passes' = passes + 1

\* C5: a Start pass that finds a number of Running pods other than the
\* parallelism returns no error and asks for a requeue, leaves the stage and
\* the conditions as they are, sends no start request and creates no starter.
C5_NotReadyRequeues ==
    [][(StartBeginStep /\ podsRunning # parallelism)
       => /\ pc' = "idle"
          /\ lastErr' = Nil
          /\ lastRes' = ResAfter1s
          /\ stage' = stage
          /\ conds' = conds
          /\ sent' = <<>>
          /\ queue' = queue
          /\ createLog' = <<>>
          /\ starterExists' = starterExists]_vars

C5_Witness ==
    /\ pc = "idle" /\ lastKind = "Start" /\ ~changed
    /\ parallelism = 2 /\ podsRunning = 1
    /\ lastRes = ResAfter1s /\ lastErr = Nil /\ stage = "created"

\* The step in which SendStartToHTTPWorker is called for the next hostname.
SendStep == pc = "send" /\ idx <= parallelism /\ idx' = idx + 1

\* The request of this pass for host h is on the channel.
OnQueue(h) ==
    \E k \in 1..Len(queue) : queue[k].host = h /\ queue[k].pass = passes

\* C6: SendStartToHTTPWorker on a full channel returns at once with no
\* error: the call is never blocked, the channel and the errors collected are
\* left as they are, and the request is dropped, that is, neither on the
\* channel nor ever taken by a worker.
C6_FullQueueDrops ==
    /\ [][(SendStep /\ Len(queue) = QueueCap)
          => /\ queue' = queue
             /\ delivered' = delivered
             /\ errs' = errs
             /\ pc' = "send"
             /\ Len(sent') = Len(sent) + 1
             /\ sent'[Len(sent')] =
                    [host |-> idx, queued |-> FALSE, err |-> Nil]]_vars
    /\ []((pc = "send" /\ idx <= parallelism) => ENABLED SendStart)
    /\ [](\A k \in 1..Len(sent) :
              ~sent[k].queued
              => (sent[k].host \notin delivered /\ ~OnQueue(sent[k].host)))

C6_Witness ==
    /\ pc = "finish"
    /\ startErr.isNil
    /\ \E k \in 1..Len(sent) : ~sent[k].queued
    /\ Len(queue) = QueueCap

\* StartK6FromOperators has returned in the pass last begun.
StartReturned ==
    /\ lastKind = "Start"
    /\ pc \in {"idle", "finish"}
    /\ Len(sent) = parallelism

\* The targets of this pass that were not started: their request failed or
\* was not put on the channel.
NotStarted ==
    {sent[k].host : k \in {j \in 1..Len(sent) :
                               ~sent[j].queued \/ sent[j].err # Nil}}

\* C7: StartK6FromOperators attempts every target exactly once; when k >= 1
\* of the n targets fail to start it returns one error naming k, n and the
\* failing targets, and it returns no error exactly when all were started.
C7_AggregateStart ==
    StartReturned
    => /\ \A h \in 1..parallelism :
              Cardinality({k \in 1..Len(sent) : sent[k].host = h}) = 1
       /\ NotStarted # {}
           => /\ ~startErr.isNil
              /\ startErr.failed = Cardinality(NotStarted)
              /\ startErr.total = parallelism
              /\ {startErr.targets[k] : k \in 1..Len(startErr.targets)}
                     = NotStarted
       /\ startErr.isNil <=> NotStarted = {}

\* The step of createJobSpecs in which the probe for job <name>-1 found the
\* job or failed otherwise than with not-found.
CreateConflictStep ==
    /\ pc = "idle" /\ stage = "initialized" /\ passes' = passes + 1
    /\ lastProbe' \in {"found", "error"}

\* C8: on a conflict of the probe, the pass ends with a requeue after 10
\* seconds and no error while CloudTestRun is Unknown, is not set, or changed
\* less than 30 seconds ago; it ends with an error when CloudTestRun is set,
\* not Unknown, and changed more than 30 seconds ago.
C8_ConflictGrace ==
    [][CreateConflictStep
       => LET c == conds[CloudTestRun]
              since == Instants[now] - Instants[c.time]
          IN
          /\ ((c.present /\ c.status = "Unknown") \/ ~c.present \/ since < 30)
              => (pc' = "idle" /\ lastRes' = ResAfter10s /\ lastErr' = Nil)
          /\ (c.present /\ c.status # "Unknown" /\ since > 30)
              => (pc' = "idle" /\ lastRes' = ResNone /\ lastErr' # Nil)]_vars

C8_Witness ==
    /\ pc = "idle" /\ lastKind = "CreateJobs" /\ passes >= 2
    /\ lastProbe = "found" /\ lastErr = ErrJobExists
    /\ Instants[now] > 30

\* C9: a pass repeated on a status and a cluster that did not change since
\* the previous pass of the same kind began has no further externally
\* visible effect: when the previous pass has sent an abort event to the
\* cloud, the repeated pass sends none.
C9_RepeatedPassNoEffect ==
    [][(/\ pc = "idle" /\ passes' = passes + 1
        /\ lastKind' = lastKind /\ ~changed /\ passEvents > 0)
       => passEvents' = 0]_vars

\* C10: when Start on the operator path has set the stage to "started" and
\* TestRunRunning to True, a start request was put on the channel for every
\* hostname of the run.
C10_StartedAllCommanded ==
    (stage = "started" /\ IsTrue(TestRunRunning) /\ ~useLegacyStarter)
    => \A h \in 1..parallelism :
           \E k \in 1..Len(sent) : sent[k].host = h /\ sent[k].queued

\* ------------------------------------------------------- creation claims

\* Entry p of the creation log is a successful r.Create of the given kind
\* and index.
CreatedAt(p, kind, i) ==
    /\ createLog[p].kind = kind
    /\ createLog[p].index = i
    /\ createLog[p].ok

\* The number of successful creations of the kind and index in the pass.
CreatedCount(kind, i) ==
    Cardinality({p \in 1..Len(createLog) : CreatedAt(p, kind, i)})

\* C11: in a CreateJobs pass, for a parallelism above 1 the shared configmap
\* is created before any runner job; the jobs are created in the order of
\* their indices 1, 2, ...; the service of an index is created after the job
\* of that index, and before the job of the next index.
C11_CreationOrder ==
    lastKind = "CreateJobs"
    => \A p \in 1..Len(createLog) :
          LET i == createLog[p].index IN
          /\ (createLog[p].kind = "job" /\ createLog[p].ok)
              => /\ parallelism > 1
                     => \E q \in 1..(p - 1) : CreatedAt(q, "configmap", 0)
                 /\ i \in 1..parallelism
                 /\ i > 1 => \E q \in 1..(p - 1) : CreatedAt(q, "job", i - 1)
                 /\ (i > 1 /\ ~useDirectPodIPs)
                     => \E q \in 1..(p - 1) : CreatedAt(q, "service", i - 1)
                 /\ \A q \in 1..(p - 1) :
                        createLog[q].kind = "job" => createLog[q].index < i
          /\ (createLog[p].kind = "service" /\ createLog[p].ok)
              => /\ \E q \in 1..(p - 1) : CreatedAt(q, "job", i)
                 /\ \A q \in 1..(p - 1) :
                        createLog[q].kind = "job" => createLog[q].index <= i

C11_Witness ==
    /\ pc = "setCreated" /\ parallelism = 2 /\ ~useDirectPodIPs
    /\ Len(createLog) = 5
    /\ CreatedAt(1, "configmap", 0) /\ CreatedAt(2, "job", 1)
    /\ CreatedAt(3, "service", 1) /\ CreatedAt(4, "job", 2)
    /\ CreatedAt(5, "service", 2)

\* C12: the stage is "created" only after a pass that created exactly one
\* job for every index 1..N, one service per index unless direct pod IPs are
\* used, and the shared configmap exactly when N > 1; a creation that fails
\* is the last one attempted in its pass, the pass returns an error, and the
\* stage remains "initialized".
C12_CreatedOnlyWhenComplete ==
    /\ stage = "created"
        => /\ lastKind = "CreateJobs"
           /\ \A p \in 1..Len(createLog) : createLog[p].ok
           /\ \A i \in 1..parallelism :
                  /\ CreatedCount("job", i) = 1
                  /\ CreatedCount("service", i) =
                         (IF useDirectPodIPs THEN 0 ELSE 1)
           /\ CreatedCount("configmap", 0) = (IF parallelism > 1 THEN 1 ELSE 0)
           /\ Len(createLog) =
                  parallelism * (IF useDirectPodIPs THEN 1 ELSE 2)
                  + (IF parallelism > 1 THEN 1 ELSE 0)
    /\ \A p \in 1..Len(createLog) :
           ~createLog[p].ok
           => /\ p = Len(createLog)
              /\ pc = "idle"
              /\ lastErr # Nil
              /\ stage = "initialized"

C12_Witness ==
    /\ stage = "created" /\ parallelism = 2 /\ ~useDirectPodIPs
    /\ jobs = {1, 2} /\ services = {1, 2} /\ cmExists

\* The step in which the r.Create of the service of index idx fails.
ServiceCreateFails ==
    /\ pc = "launchSvc"
    /\ Len(createLog') = Len(createLog) + 1
    /\ ~createLog'[Len(createLog')].ok

\* C13: when the creation of the service of index i fails, the job of index
\* i having been created, the error is returned and the job, as everything
\* created earlier in the pass, stays in the cluster.
C13_NoRollback ==
    /\ [][ServiceCreateFails
          => /\ pc' = "idle"
             /\ lastErr' = ErrCreate
             /\ idx \in jobs
             /\ jobs' = jobs
             /\ services' = services
             /\ cmExists' = cmExists]_vars
    /\ [](lastKind = "CreateJobs"
          => \A p \in 1..Len(createLog) :
                 createLog[p].ok
                 => CASE createLog[p].kind = "job"
                             -> createLog[p].index \in jobs
                      [] createLog[p].kind = "service"
                             -> createLog[p].index \in services
                      [] OTHER -> cmExists)

C13_Witness ==
    /\ pc = "idle" /\ lastErr = ErrCreate /\ parallelism = 2
    /\ Len(createLog) = 5
    /\ createLog[5] = [kind |-> "service", index |-> 2, ok |-> FALSE]
    /\ jobs = {1, 2} /\ services = {1} /\ cmExists

\* The pass that ended last was stopped by the failure of the creation of a
\* service, the job of the same index having been created in that pass.
AfterServiceFailure ==
    /\ pc = "idle" /\ lastKind = "CreateJobs" /\ stage = "initialized"
    /\ Len(createLog) >= 2
    /\ createLog[Len(createLog)].kind = "service"
    /\ ~createLog[Len(createLog)].ok
    /\ CreatedCount("job", createLog[Len(createLog)].index) = 1

\* C14: the CreateJobs pass that follows the failure of the creation of a
\* service, and whose own calls to the cluster succeed, goes on to create
\* what is missing: it does not end at the probe for job <name>-1.
C14_FailureCorrected ==
    [][(/\ AfterServiceFailure
        /\ passes' = passes + 1
        /\ lastProbe' \in {"found", "notfound"})
       => pc' \in {"createCM", "launchJob"}]_vars

\* What the passes do instead: once job <name>-1 exists, a CreateJobs pass
\* ends at the probe and leaves the cluster and the stage as they are.
CreateJobsStuckOnceJobExists ==
    [][(pc = "idle" /\ passes' = passes + 1 /\ 1 \in jobs)
       => /\ pc' = "idle"
          /\ lastRes' \in {ResNone, ResAfter5s, ResAfter10s}
          /\ UNCHANGED <<stage, clusterVars>>]_vars

\* ------------------------------------------------------ error claims

\* A call to the cluster API failed in the pass begun last: r.List, an
\* r.Create, or the assignment of the owner reference.
ApiErrorMet ==
    \/ lastProbe = "listError"
    \/ \E p \in 1..Len(createLog) : ~createLog[p].ok
    \/ lastErr \in {ErrOwner, ErrPrepare, ErrCreate}

\* C15: a CreateJobs or Start pass in which a create, a list or an owner
\* reference assignment failed returns an error, and does not change the
\* stage.
C15_ApiErrorsReturned ==
    /\ (pc = "idle" /\ passes > 0 /\ ApiErrorMet) => lastErr # Nil
    /\ (ApiErrorMet /\ lastKind = "Start") => stage = "created"
    /\ (ApiErrorMet /\ lastKind = "CreateJobs") => stage = "initialized"

\* ------------------------------------------------------ Start claims

\* C16: a Start pass that has listed the pods and found them not all Running
\* ends with a requeue and no error and leaves the stage as it is; when
\* TestRunRunning changed more than 5 minutes ago it sends one abort event
\* if CloudTestRun is True and none otherwise; when TestRunRunning changed
\* less than 5 minutes ago it sends none.
C16_StuckReadiness ==
    [][(/\ StartBeginStep /\ lastProbe' = "listed"
        /\ podsRunning # parallelism /\ conds[TestRunRunning].present)
       => LET since == Instants[now] - Instants[conds[TestRunRunning].time]
              cloud == conds[CloudTestRun].present
                       /\ conds[CloudTestRun].status = "True"
          IN
          /\ pc' = "idle"
          /\ lastRes' = ResAfter1s
          /\ lastErr' = Nil
          /\ stage' = "created"
          /\ since > 300 => passEvents' = (IF cloud THEN 1 ELSE 0)
          /\ since < 300 => passEvents' = 0]_vars

C16_Witness ==
    /\ pc = "idle" /\ lastKind = "Start" /\ ~changed
    /\ lastProbe = "listed" /\ podsRunning # parallelism
    /\ Instants[now] = 301 /\ passEvents = 1
    /\ lastRes = ResAfter1s /\ lastErr = Nil /\ stage = "created"

\* C17: in a Start pass of a PLZ test run whose setup fails, a retryable
\* failure is returned as an error and no abort event is sent; any other
\* failure sends an abort event and the pass returns no error and asks for
\* no requeue; either way no start request is sent, no starter job is
\* created and the stage is left as it is.
C17_SetupFailure ==
    [][(StartBeginStep /\ lastSetup' \in {"retryable", "fatal"})
       => /\ conds[CloudPLZTestRun].status = "True"
          /\ pc' = "idle"
          /\ lastSetup' = "retryable"
              => (lastErr' = ErrSetup /\ lastErr' # Nil /\ passEvents' = 0)
          /\ lastSetup' = "fatal"
              => (lastErr' = Nil /\ lastRes' = ResNone /\ passEvents' = 1)
          /\ sent' = <<>>
          /\ queue' = queue
          /\ createLog' = <<>>
          /\ starterExists' = starterExists
          /\ UNCHANGED <<stage, conds>>]_vars

C17_Witness ==
    /\ pc = "idle" /\ lastKind = "Start" /\ lastSetup = "retryable"
    /\ lastErr = ErrSetup /\ passEvents = 0 /\ stage = "created"
    /\ ~starterExists /\ sent = <<>>

\* The pass begun last has ended in a failure that is not a retryable one:
\* it returned an error other than the retryable error of the setup, or it
\* gave the run up after a setup failure that was not retryable.
NonRetryableFailure ==
    /\ pc = "idle" /\ passes > 0
    /\ \/ lastErr # Nil /\ lastSetup # "retryable"
       \/ lastSetup = "fatal"

\* C18: when CloudTestRun is True, a CreateJobs or Start pass that ended in
\* a failure that is not retryable has sent an abort event to the cloud.
C18_CloudAbortEvent ==
    (IsTrue(CloudTestRun) /\ NonRetryableFailure) => passEvents >= 1

\* The step of Start in which r.Create is called for the starter job.
StarterStep == pc = "starter" /\ createLog' # createLog

\* C19: with all pods Running, a Start pass on the legacy path that comes
\* after a pass that created the starter job and failed to persist the
\* status goes on to persist the stage "started" and TestRunRunning = True:
\* it does not end at the creation of the starter job.
C19_StartedAfterPersistFailure ==
    [][(/\ StarterStep /\ starterExists
        /\ stage = "created" /\ podsRunning = parallelism)
       => pc' = "finish"]_vars

\* What the passes do instead: once the starter job exists, a Start pass on
\* the legacy path ends at r.Create with a requeue and no error, and the
\* stage remains "created".
StartStuckOnceStarterExists ==
    [][(StarterStep /\ starterExists)
       => /\ pc' = "idle"
          /\ lastRes' = ResAfter1s
          /\ lastErr' = Nil
          /\ UNCHANGED <<stage, conds, clusterVars>>]_vars

\* ------------------------------------------- segments and shared sequence

\* C20: for N > 1 and 1 <= i <= N, the lower bound of the segment of
\* NewCommandSegment(i, N) is, character for character, entry i-1 of the
\* sequence of newSharedRunnedConfigmap for N, and its upper bound is entry
\* i (entries separated by commas and numbered from 0).
C20_SegmentAgreesWithSequence ==
    (/\ segOut.called /\ cmOut.called
     /\ segTotal > 1 /\ 1 <= segIndex /\ segIndex <= segTotal)
    => LET entries == Split(SequenceText(cmOut.data), ",") IN
       /\ segOut.err = Nil
       /\ ~cmOut.isNil
       /\ Len(entries) = segTotal + 1
       /\ LowerText(segOut.flag) = entries[(segIndex - 1) + 1]
       /\ UpperText(segOut.flag) = entries[segIndex + 1]

C20_Witness ==
    /\ segOut.called /\ cmOut.called /\ segTotal = 11 /\ segIndex = 10
    /\ LowerText(segOut.flag) = <<"9", "/", "1", "1">>
    /\ ~cmOut.isNil

====
